---- MODULE Spec2Model ----
(***************************************************************************)
(* Model of the command-line EVM wallet: parseArgs, the transaction field  *)
(* encoding (hexToUint8Array, encodeTx, signTransaction), broadcastRawTx    *)
(* and the top-level script of wallet.ts.                                  *)
(*                                                                         *)
(* A JavaScript string is a sequence of one-character strings.             *)
(* A Uint8Array is a sequence of numbers in 0..255.                        *)
(* A BigInt is the sequence of its base-16 digits, most significant first, *)
(* without leading zero digits (0n is the empty sequence).                 *)
(***************************************************************************)
EXTENDS Integers, Sequences, FiniteSets, TLC

VARIABLES
    argv,       \* process.argv.slice(2): a sequence of strings
    i,          \* parseArgs: index of the next argv element (0-based)
    result,     \* parseArgs: the object being built, a function key -> value
    pc,         \* position in the script / in the library call
    steps,      \* the cryptographic operations executed so far, in order
    console,    \* what was printed, in order
    exitCode,   \* -1 while the process runs, then its exit status
    call,       \* the arguments of the encodeTx / signTransaction call
    rawTx,      \* encodeTx's tuple (the unsigned form)
    tx,         \* signTransaction's tuple (the signed form)
    requests,   \* number of fetch() requests sent to the endpoint
    response,   \* what the endpoint answered
    outcome     \* broadcastRawTx: how the call ended

vars == <<argv, i, result, pc, steps, console, exitCode, call, rawTx, tx,
          requests, response, outcome>>

(***************************************************************************)
(* Strings                                                                 *)
(***************************************************************************)
Min(a, b) == IF a < b THEN a ELSE b

Rep(c, n) == [k \in 1..n |-> c]

\* String.prototype.startsWith
StartsWith(s, p) == Len(s) >= Len(p) /\ SubSeq(s, 1, Len(p)) = p

\* String.prototype.slice(n) for 0 <= n
Slice(s, n) == SubSeq(s, n + 1, Len(s))

\* String.prototype.substr(start, len)
Substr(s, start, len) == SubSeq(s, start + 1, Min(start + len, Len(s)))

\* String.prototype.includes for a one-character needle
Includes(s, c) == \E k \in 1..Len(s) : s[k] = c

HexDigits == <<"0", "1", "2", "3", "4", "5", "6", "7", "8", "9",
               "a", "b", "c", "d", "e", "f">>

UpperHex == <<"0", "1", "2", "3", "4", "5", "6", "7", "8", "9",
              "A", "B", "C", "D", "E", "F">>

HexChars == {HexDigits[d] : d \in 1..16} \cup {UpperHex[d] : d \in 1..16}

HexTable ==
    [c \in HexChars |->
        (CHOOSE d \in 1..16 : HexDigits[d] = c \/ UpperHex[d] = c) - 1]

\* [0-9a-fA-F]
IsHexChar(c) == c \in HexChars

HexVal(c) == HexTable[c]

IsSpace(c) == c = " "

(***************************************************************************)
(* Number.prototype.toString(16) for a non-negative integer                *)
(***************************************************************************)
RECURSIVE ToString16(_)
ToString16(n) ==
    IF n < 16 THEN <<HexDigits[n + 1]>>
    ELSE Append(ToString16(n \div 16), HexDigits[(n % 16) + 1])

(***************************************************************************)
(* BigInt: base-16 digit sequences                                         *)
(***************************************************************************)
RECURSIVE BigFromNat(_)
BigFromNat(n) ==
    IF n = 0 THEN <<>> ELSE Append(BigFromNat(n \div 16), n % 16)

\* BigInt.prototype.toString(16)
BigToString16(b) ==
    IF b = <<>> THEN <<"0">> ELSE [k \in 1..Len(b) |-> HexDigits[b[k] + 1]]

\* b * m + carry for a small m, schoolbook from the least significant digit
RECURSIVE BigMulSmall(_, _, _)
BigMulSmall(b, m, carry) ==
    IF b = <<>> THEN BigFromNat(carry)
    ELSE LET p == b[Len(b)] * m + carry
         IN  Append(BigMulSmall(SubSeq(b, 1, Len(b) - 1), m, p \div 16), p % 16)

RECURSIVE BigTimesPow10(_, _)
BigTimesPow10(b, e) ==
    IF e = 0 \/ b = <<>> THEN b ELSE BigTimesPow10(BigMulSmall(b, 10, 0), e - 1)

\* b < m for two BigInts
BigLess(b, m) ==
    \/ Len(b) < Len(m)
    \/ /\ Len(b) = Len(m)
       /\ \E k \in 1..Len(b) :
            /\ b[k] < m[k]
            /\ \A j \in 1..(k - 1) : b[j] = m[j]

(***************************************************************************)
(* parseInt(s, 16): NaN is the record with nan = TRUE                      *)
(***************************************************************************)
NaN == [nan |-> TRUE, v |-> 0]

Number(n) == [nan |-> FALSE, v |-> n]

RECURSIVE SkipSpace(_)
SkipSpace(s) == IF s # <<>> /\ IsSpace(s[1]) THEN SkipSpace(Slice(s, 1)) ELSE s

\* the value of the longest prefix of hex digits of s, acc so far, seen = any digit
RECURSIVE HexPrefix(_, _, _)
HexPrefix(s, acc, seen) ==
    IF s # <<>> /\ IsHexChar(s[1])
    THEN HexPrefix(Slice(s, 1), acc * 16 + HexVal(s[1]), TRUE)
    ELSE IF seen THEN Number(acc) ELSE NaN

parseInt16(str) ==
    LET t    == SkipSpace(str)
        neg  == t # <<>> /\ t[1] = "-"
        u    == IF t # <<>> /\ t[1] \in {"-", "+"} THEN Slice(t, 1) ELSE t
        w    == IF StartsWith(u, <<"0", "x">>) \/ StartsWith(u, <<"0", "X">>)
                THEN Slice(u, 2) ELSE u
        r    == HexPrefix(w, 0, FALSE)
    IN  IF r.nan THEN NaN ELSE IF neg THEN Number(0 - r.v) ELSE r

\* the conversion of a number stored into a Uint8Array element
ToUint8(x) == IF x.nan THEN 0 ELSE x.v % 256

(***************************************************************************)
(* hexToUint8Array                                                         *)
(***************************************************************************)
hexToUint8Array(hex) ==
    LET clean == IF StartsWith(hex, <<"0", "x">>) THEN Slice(hex, 2) ELSE hex
    IN  IF Len(clean) = 0 THEN <<>>
        ELSE [k \in 1..((Len(clean) + 1) \div 2) |->
                ToUint8(parseInt16(Substr(clean, (k - 1) * 2, 2)))]

(***************************************************************************)
(* encodeTx and signTransaction: the tuples handed to rlp.encode           *)
(***************************************************************************)
encodeTx(nonce, gasPrice, gasLimit, to, value, data, chainId) ==
    << IF nonce = 0 THEN <<>> ELSE hexToUint8Array(ToString16(nonce)),
       IF gasPrice = <<>> THEN <<>> ELSE hexToUint8Array(BigToString16(gasPrice)),
       IF gasLimit = <<>> THEN <<>> ELSE hexToUint8Array(BigToString16(gasLimit)),
       hexToUint8Array(to),
       IF value = <<>> THEN <<>> ELSE hexToUint8Array(BigToString16(value)),
       data,
       hexToUint8Array(ToString16(chainId)),
       <<>>,
       <<>> >>

\* const v = chainId * 2 + 35 + recid
ReplayV(chainId, recid) == chainId * 2 + 35 + recid

\* signTransaction with its copy of the field list gone out of step with
\* encodeTx: the value field converted without the zero test
SignedTupleValueUnnormalized(nonce, gasPrice, gasLimit, to, value, data, chainId, signature, recid) ==
    << IF nonce = 0 THEN <<>> ELSE hexToUint8Array(ToString16(nonce)),
       IF gasPrice = <<>> THEN <<>> ELSE hexToUint8Array(BigToString16(gasPrice)),
       IF gasLimit = <<>> THEN <<>> ELSE hexToUint8Array(BigToString16(gasLimit)),
       hexToUint8Array(to),
       hexToUint8Array(BigToString16(value)),
       data,
       hexToUint8Array(ToString16(chainId * 2 + 35 + recid)),
       SubSeq(signature, 1, 32),
       SubSeq(signature, 33, 64) >>

\* the tuple built at step 3 of signTransaction from the signer's output
SignedTuple(nonce, gasPrice, gasLimit, to, value, data, chainId, signature, recid) ==
    LET r == SubSeq(signature, 1, 32)
        s == SubSeq(signature, 33, 64)
        v == ReplayV(chainId, recid)
    IN  << IF nonce = 0 THEN <<>> ELSE hexToUint8Array(ToString16(nonce)),
           IF gasPrice = <<>> THEN <<>> ELSE hexToUint8Array(BigToString16(gasPrice)),
           IF gasLimit = <<>> THEN <<>> ELSE hexToUint8Array(BigToString16(gasLimit)),
           hexToUint8Array(to),
           IF value = <<>> THEN <<>> ELSE hexToUint8Array(BigToString16(value)),
           data,
           hexToUint8Array(ToString16(v)),
           r,
           s >>

\* secp256k1.ecdsaSign: a 64-byte signature and a recovery id; which one is
\* decided by the library, so every pair of the sets below may be returned
SigBytes == {0, 255}

Signatures == { Rep(a, 32) \o Rep(b, 32) : a \in SigBytes, b \in SigBytes }

RecoveryIds == {0, 1}

(***************************************************************************)
(* JavaScript values held by the parsed-arguments object.  Every value has *)
(* the same fields: t is its type, s its text when a string, n its value   *)
(* when a number (1/0 for true/false), a its elements when an array.       *)
(***************************************************************************)
JStr(str) == [t |-> "string", s |-> str, n |-> 0, a |-> <<>>]

JNum(num) == [t |-> "number", s |-> <<>>, n |-> num, a |-> <<>>]

JBool(b) == [t |-> "boolean", s |-> <<>>, n |-> IF b THEN 1 ELSE 0, a |-> <<>>]

JArr(arr) == [t |-> "array", s |-> <<>>, n |-> 0, a |-> arr]

Undefined == [t |-> "undefined", s |-> <<>>, n |-> 0, a |-> <<>>]

\* obj[key]
Get(obj, key) == IF key \in DOMAIN obj THEN obj[key] ELSE Undefined

\* obj[key] = val
Put(obj, key, val) ==
    [k \in DOMAIN obj \cup {key} |-> IF k = key THEN val ELSE obj[k]]

\* ToBoolean
Truthy(x) ==
    CASE x.t = "undefined" -> FALSE
      [] x.t = "boolean"   -> x.n = 1
      [] x.t = "number"    -> x.n # 0
      [] x.t = "string"    -> x.s # <<>>
      [] OTHER             -> TRUE

DecDigits == <<"0", "1", "2", "3", "4", "5", "6", "7", "8", "9">>

DecChars == {DecDigits[d] : d \in 1..10}

DecTable == [c \in DecChars |-> (CHOOSE d \in 1..10 : DecDigits[d] = c) - 1]

IsDecChar(c) == c \in DecChars

DecVal(c) == DecTable[c]

RECURSIVE DecString(_)
DecString(n) ==
    IF n < 10 THEN <<DecDigits[n + 1]>>
    ELSE Append(DecString(n \div 10), DecDigits[(n % 10) + 1])

\* ToString of a value (numbers of the model are integers)
ToStr(x) ==
    CASE x.t = "string"  -> x.s
      [] x.t = "number"  -> IF x.n < 0 THEN <<"-">> \o DecString(0 - x.n)
                            ELSE DecString(x.n)
      [] x.t = "boolean" -> IF x.n = 1 THEN <<"t", "r", "u", "e">>
                            ELSE <<"f", "a", "l", "s", "e">>
      [] OTHER           -> <<"u", "n", "d", "e", "f", "i", "n", "e", "d">>

RECURSIVE AllDec(_)
AllDec(s) == s = <<>> \/ (IsDecChar(s[1]) /\ AllDec(Slice(s, 1)))

RECURSIVE AllHex(_)
AllHex(s) == s = <<>> \/ (IsHexChar(s[1]) /\ AllHex(Slice(s, 1)))

RECURSIVE DecValue(_, _)
DecValue(s, acc) ==
    IF s = <<>> THEN acc ELSE DecValue(Slice(s, 1), acc * 10 + DecVal(s[1]))

RECURSIVE HexValue(_, _)
HexValue(s, acc) ==
    IF s = <<>> THEN acc ELSE HexValue(Slice(s, 1), acc * 16 + HexVal(s[1]))

\* String.prototype.trim
RECURSIVE TrimEnd(_)
TrimEnd(s) ==
    IF s # <<>> /\ IsSpace(s[Len(s)]) THEN TrimEnd(SubSeq(s, 1, Len(s) - 1)) ELSE s

Trim(s) == TrimEnd(SkipSpace(s))

\* Number(str): the empty text is 0, signed decimal digits and 0x-prefixed hex
\* digits are numbers, any other text of the model's alphabet is NaN (the
\* alphabet holds no '.', no exponent form, no "Infinity", no 0b/0o prefix)
ToNumber(str) ==
    LET t == Trim(str)
        u == IF t # <<>> /\ t[1] \in {"-", "+"} THEN Slice(t, 1) ELSE t
    IN  CASE t = <<>> -> Number(0)
          [] (StartsWith(t, <<"0", "x">>) \/ StartsWith(t, <<"0", "X">>))
               /\ Len(t) > 2 /\ AllHex(Slice(t, 2))
                      -> Number(HexValue(Slice(t, 2), 0))
          [] u # <<>> /\ AllDec(u)
                      -> IF t[1] = "-" THEN Number(0 - DecValue(u, 0))
                         ELSE Number(DecValue(u, 0))
          [] OTHER    -> NaN

\* /^0x[0-9a-fA-F]+$/
IsHexLiteral(v) ==
    StartsWith(v, <<"0", "x">>) /\ Len(v) > 2 /\ AllHex(Slice(v, 2))

parseValue(v) ==
    CASE v = <<"t", "r", "u", "e">>      -> JBool(TRUE)
      [] v = <<"f", "a", "l", "s", "e">> -> JBool(FALSE)
      [] IsHexLiteral(v)                 -> JStr(v)
      [] ~ToNumber(v).nan /\ Trim(v) # <<>> -> JNum(ToNumber(v).v)
      [] OTHER                           -> JStr(v)

\* String.prototype.split for a one-character separator
RECURSIVE Split(_, _)
Split(s, sep) ==
    IF ~Includes(s, sep) THEN <<s>>
    ELSE LET k == CHOOSE j \in 1..Len(s) :
                    s[j] = sep /\ \A m \in 1..(j - 1) : s[m] # sep
         IN  <<SubSeq(s, 1, k - 1)>> \o Split(Slice(s, k), sep)

Dashes == <<"-", "-">>

Underscore == <<"_">>

\* the branch of the loop body of parseArgs taken for argv[i]
ArgKind(args, at) ==
    LET arg == args[at + 1]
        nextIsValue == at + 1 < Len(args) /\ ~StartsWith(args[at + 2], <<"-">>)
    IN  CASE StartsWith(arg, Dashes) /\ Includes(Slice(arg, 2), "=") -> "keyEqValue"
          [] StartsWith(arg, Dashes) /\ nextIsValue                  -> "keyValue"
          [] StartsWith(arg, Dashes)                                 -> "flag"
          [] StartsWith(arg, <<"-">>) /\ Len(arg) = 2 /\ nextIsValue -> "shortValue"
          [] StartsWith(arg, <<"-">>) /\ Len(arg) = 2                -> "shortFlag"
          [] OTHER                                                   -> "positional"

\* const [k, v] = key.split("=")
SplitKey(key) == Split(key, "=")[1]

SplitValue(key) == Split(key, "=")[2]

\* one iteration of the while loop: the new object and the new index
parseArgsStep(args, at, obj) ==
    LET arg  == args[at + 1]
        kind == ArgKind(args, at)
    IN  CASE kind = "keyEqValue" ->
               [obj |-> Put(obj, SplitKey(Slice(arg, 2)),
                            parseValue(SplitValue(Slice(arg, 2)))),
                at |-> at + 1, threw |-> FALSE]
          [] kind = "keyValue" ->
               [obj |-> Put(obj, Slice(arg, 2), parseValue(args[at + 2])),
                at |-> at + 2, threw |-> FALSE]
          [] kind = "flag" ->
               [obj |-> Put(obj, Slice(arg, 2), JBool(TRUE)),
                at |-> at + 1, threw |-> FALSE]
          [] kind = "shortValue" ->
               [obj |-> Put(obj, Slice(arg, 1), parseValue(args[at + 2])),
                at |-> at + 2, threw |-> FALSE]
          [] kind = "shortFlag" ->
               [obj |-> Put(obj, Slice(arg, 1), JBool(TRUE)),
                at |-> at + 1, threw |-> FALSE]
          [] OTHER ->
               \* result._.push(arg): a TypeError when result._ was overwritten
               IF Get(obj, Underscore).t = "array"
               THEN [obj |-> Put(obj, Underscore,
                                 JArr(Append(obj[Underscore].a, arg))),
                     at |-> at + 1, threw |-> FALSE]
               ELSE [obj |-> obj, at |-> at, threw |-> TRUE]

\* const result = { _: [] }
EmptyResult == [k \in {Underscore} |-> JArr(<<>>)]

(***************************************************************************)
(* isHexAddress                                                            *)
(***************************************************************************)
\* Buffer.from(text, "hex").length: the number of leading two-digit pairs
RECURSIVE HexBufferLength(_)
HexBufferLength(s) ==
    IF Len(s) >= 2 /\ IsHexChar(s[1]) /\ IsHexChar(s[2])
    THEN 1 + HexBufferLength(Slice(s, 2)) ELSE 0

\* /^0x[0-9a-fA-F]{40}$/
AddressPattern(s) ==
    StartsWith(s, <<"0", "x">>) /\ Len(s) = 42 /\ AllHex(Slice(s, 2))

\* isHexAddress with the pattern /^0x[0-9a-fA-F]+$/ and no length test
isHexAddressAnyLength(addr) == IsHexLiteral(ToStr(addr))

\* isHexAddress(addr); RegExp.prototype.test converts addr to a string
isHexAddress(addr) ==
    LET s == ToStr(addr)
    IN  AddressPattern(s) /\ HexBufferLength(Slice(s, 2)) = 20

(***************************************************************************)
(* broadcastRawTx                                                          *)
(***************************************************************************)
\* what fetch() and the endpoint can answer; error and result are typed by
\* the JsonRpcResponse interface
Responses ==
    [network : {"ok"}, ok : BOOLEAN, contentType : {"none", "html", "json"},
     body : {"json", "garbage"}, error : BOOLEAN,
     resultField : {"absent", "empty", "hash"}]
    \cup
    [network : {"fail"}, ok : {FALSE}, contentType : {"none"},
     body : {"garbage"}, error : {FALSE}, resultField : {"absent"}]

NoOutcome == [kind |-> "none", prefix |-> "", message |-> "", value |-> "absent"]

Returned(v) == [kind |-> "returned", prefix |-> "", message |-> "", value |-> v]

\* throw new Error(`Broadcast failed: ${error.message}`)
Thrown(msg) ==
    [kind |-> "thrown", prefix |-> "Broadcast failed: ", message |-> msg,
     value |-> "absent"]

\* broadcastRawTx without the test of data.result
broadcastRawTxNoResultTest(resp) ==
    CASE resp.network = "fail"        -> Thrown("fetch failed")
      [] ~resp.ok                     -> Thrown("HTTP status")
      [] resp.contentType # "json"    -> Thrown("Expected JSON response")
      [] resp.body # "json"           -> Thrown("Unexpected token in JSON")
      [] resp.error                   -> Thrown("RPC Error")
      [] OTHER                        -> Returned(resp.resultField)

\* the body of broadcastRawTx after its fetch() settled with resp
broadcastRawTx(resp) ==
    CASE resp.network = "fail"        -> Thrown("fetch failed")
      [] ~resp.ok                     -> Thrown("HTTP status")
      [] resp.contentType # "json"    -> Thrown("Expected JSON response")
      [] resp.body # "json"           -> Thrown("Unexpected token in JSON")
      [] resp.error                   -> Thrown("RPC Error")
      [] resp.resultField # "hash"    -> Thrown("No result in RPC response")
      [] OTHER                        -> Returned(resp.resultField)

(***************************************************************************)
(* The flags of the wallet and their texts                                 *)
(***************************************************************************)
K_to == <<"t", "o">>

K_value == <<"v", "a", "l", "u", "e">>

K_nonce == <<"n", "o", "n", "c", "e">>

K_gasPrice == <<"g", "a", "s", "P", "r", "i", "c", "e">>

K_gasLimit == <<"g", "a", "s", "L", "i", "m", "i", "t">>

K_chainId == <<"c", "h", "a", "i", "n", "I", "d">>

K_rpc == <<"r", "p", "c">>

K_help == <<"h", "e", "l", "p">>

K_dashHelp == <<"-", "-", "h", "e", "l", "p">>

K_mnemonic == <<"m", "n", "e", "m", "o", "n", "i", "c">>

K_path == <<"p", "a", "t", "h">>

\* const PATH = "m/44'/60'/0'/0/0"
PATH == <<"m", "/", "4", "4", "'", "/", "6", "0", "'", "/", "0", "'", "/",
          "0", "/", "0">>

RECURSIVE Repeat(_, _)
Repeat(s, n) == IF n = 0 THEN <<>> ELSE s \o Repeat(s, n - 1)

MnemonicTests == 13

\* const MNEMONIC = "test test test ... test junk"
MNEMONIC == Repeat(<<"t", "e", "s", "t", " ">>, MnemonicTests) \o <<"j", "u", "n", "k">>

(***************************************************************************)
(* HDKey.derive: the paths it accepts                                      *)
(***************************************************************************)
\* /^(\d+)('?)$/
ValidSegment(c) ==
    LET d == IF c # <<>> /\ c[Len(c)] = "'" THEN SubSeq(c, 1, Len(c) - 1) ELSE c
    IN  d # <<>> /\ AllDec(d)

ValidPath(p) ==
    LET s    == ToStr(p)
        head == s # <<>> /\ s[1] \in {"m", "M"}
        r1   == IF head THEN Slice(s, 1) ELSE s
        r2   == IF r1 # <<>> /\ r1[1] = "'" THEN Slice(r1, 1) ELSE r1
    IN  /\ head
        /\ \/ r2 = <<>>
           \/ LET parts == IF r2[1] = "/" THEN Split(Slice(r2, 1), "/")
                           ELSE Split(s, "/")
              IN  \A k \in 1..Len(parts) : ValidSegment(parts[k])

(***************************************************************************)
(* Conversions used by the script                                          *)
(***************************************************************************)
\* parseFloat(x): the longest signed run of decimal digits at the start of
\* String(x) (the model's alphabet has no '.' and no exponent form)
RECURSIVE DecPrefix(_, _, _)
DecPrefix(s, acc, seen) ==
    IF s # <<>> /\ IsDecChar(s[1])
    THEN DecPrefix(Slice(s, 1), acc * 10 + DecVal(s[1]), TRUE)
    ELSE IF seen THEN Number(acc) ELSE NaN

parseFloat(x) ==
    LET t == SkipSpace(ToStr(x))
        u == IF t # <<>> /\ t[1] \in {"-", "+"} THEN Slice(t, 1) ELSE t
        r == DecPrefix(u, 0, FALSE)
    IN  IF r.nan THEN NaN
        ELSE IF t[1] = "-" THEN Number(0 - r.v) ELSE r

LowerLetters == <<"a", "b", "c", "d", "e", "f", "g", "h", "i", "j", "k", "l", "m",
                  "n", "o", "p", "q", "r", "s", "t", "u", "v", "w", "x", "y", "z">>

UpperLetters == <<"A", "B", "C", "D", "E", "F", "G", "H", "I", "J", "K", "L", "M",
                  "N", "O", "P", "Q", "R", "S", "T", "U", "V", "W", "X", "Y", "Z">>

IsAlpha(c) == \E d \in 1..26 : LowerLetters[d] = c \/ UpperLetters[d] = c

ToLower(c) ==
    IF \E d \in 1..26 : UpperLetters[d] = c
    THEN LowerLetters[CHOOSE d \in 1..26 : UpperLetters[d] = c] ELSE c

SpecialSchemes ==
    { <<"h", "t", "t", "p">>, <<"h", "t", "t", "p", "s">>, <<"w", "s">>,
      <<"w", "s", "s">>, <<"f", "t", "p">> }

RECURSIVE SkipSlashes(_)
SkipSlashes(s) ==
    IF s # <<>> /\ s[1] \in {"/", "\\"} THEN SkipSlashes(Slice(s, 1)) ELSE s

\* new URL(text) does not throw: text starts with a scheme (a letter, then
\* letters, digits, '+', '-', '.') and a colon, and a special scheme is
\* followed by a host
ValidUrl(s) ==
    \E k \in 2..Len(s) :
        /\ s[k] = ":"
        /\ IsAlpha(s[1])
        /\ \A j \in 1..(k - 1) :
             IsAlpha(s[j]) \/ IsDecChar(s[j]) \/ s[j] \in {"+", "-", "."}
        /\ LET scheme == [j \in 1..(k - 1) |-> ToLower(s[j])]
               host   == SkipSlashes(Slice(s, k))
           IN  scheme \in SpecialSchemes =>
                   host # <<>> /\ host[1] \notin {"?", "#", ":", "@"}

\* BigInt(x) for the values the flags of the model hold: a non-negative
\* integer, a boolean or a numeric text convert, any other text is a
\* SyntaxError (negative numbers are outside the model's arguments)
ToBigInt(x) ==
    CASE x.t = "number" /\ x.n >= 0 -> [threw |-> FALSE, v |-> BigFromNat(x.n)]
      [] x.t = "boolean"            -> [threw |-> FALSE, v |-> BigFromNat(x.n)]
      [] x.t = "string" /\ ~ToNumber(x.s).nan /\ ToNumber(x.s).v >= 0
                         -> [threw |-> FALSE, v |-> BigFromNat(ToNumber(x.s).v)]
      [] OTHER           -> [threw |-> TRUE, v |-> <<>>]

\* Number(x)
ToNum(x) ==
    CASE x.t = "number"  -> Number(x.n)
      [] x.t = "boolean" -> Number(x.n)
      [] x.t = "string"  -> ToNumber(x.s)
      [] OTHER           -> NaN

DefaultGasPrice == 1000000000

DefaultGasLimit == 21000

DefaultChainId == 1

WeiDecimals == 18

\* const value = BigInt(Math.floor(parseFloat(argv.value) * 1e18))
ValueWei(args) == BigTimesPow10(BigFromNat(parseFloat(Get(args, K_value)).v), WeiDecimals)

\* argv.gasPrice ? BigInt(argv.gasPrice) : BigInt(1_000_000_000)
GasPriceOf(args) ==
    IF Truthy(Get(args, K_gasPrice)) THEN ToBigInt(Get(args, K_gasPrice))
    ELSE [threw |-> FALSE, v |-> BigFromNat(DefaultGasPrice)]

\* argv.gasLimit ? BigInt(argv.gasLimit) : BigInt(21000)
GasLimitOf(args) ==
    IF Truthy(Get(args, K_gasLimit)) THEN ToBigInt(Get(args, K_gasLimit))
    ELSE [threw |-> FALSE, v |-> BigFromNat(DefaultGasLimit)]

\* argv.chainId ? Number(argv.chainId) : 1
ChainIdOf(args) ==
    IF Truthy(Get(args, K_chainId)) THEN ToNum(Get(args, K_chainId)).v
    ELSE DefaultChainId

(***************************************************************************)
(* Command lines of the model                                              *)
(***************************************************************************)
MaxNonceArg == 1

Flag(k) == Dashes \o k

KeyEq(k, v) == Dashes \o k \o <<"=">> \o v

AddrLower == <<"0", "x">> \o Rep("a", 40)

AddrMixed == <<"0", "x">> \o Rep("A", 20) \o Rep("7", 20)

MinusOne == <<"-", "1">>

Word == <<"a", "b", "c">>

ToArgs ==
    { <<>>,
      <<Flag(K_to), AddrLower>>,
      <<KeyEq(K_to, AddrMixed)>>,
      <<KeyEq(K_to, AddrLower \o <<"=", "z">>)>>,
      <<Flag(K_to), <<"0", "x", "1", "2">>>>,
      <<Flag(K_to), AddrLower \o <<"0">>>>,
      <<KeyEq(K_to, <<"7">>)>> }

ValueArgs ==
    { <<>>,
      <<Flag(K_value), <<"1">>>>,
      <<KeyEq(K_value, <<"0">>)>>,
      <<KeyEq(K_value, MinusOne)>>,
      <<Flag(K_value), MinusOne>>,
      <<Flag(K_value), Word>>,
      <<Flag(K_value), <<"0", "x", "0">>>> }

NonceArgs ==
    { <<>>, <<KeyEq(K_nonce, MinusOne)>>, <<Flag(K_nonce), <<"0", "x", "1">>>> }
    \cup { <<Flag(K_nonce), DecString(n)>> : n \in 0..MaxNonceArg }

RpcArgs ==
    { <<>>,
      <<Flag(K_rpc), <<"h", "t", "t", "p", ":", "/", "/", "h">>>>,
      <<Flag(K_rpc), Word>>,
      <<Flag(K_rpc)>> }

GasArgValues == {0, 5, 2000000000}

ChainArgValues == {0, 137}

\* at most one of the optional arguments precedes the required ones
OptionArgs ==
    { <<>>,
      <<Flag(K_help)>>,
      <<KeyEq(K_gasPrice, Word)>>,
      <<Flag(K_path), <<"m", "/", "0", "'", "/", "1">>>>,
      <<Flag(K_path), <<"m", "/", "x">>>>,
      <<Flag(K_mnemonic), <<"5">>>>,
      <<Flag(K_mnemonic), Word>>,
      <<Word>>,
      <<<<"-", "f">>, Word>>,
      <<<<"-", "f">>>>,
      <<KeyEq(Underscore, Word), Word>> }
    \cup { <<Flag(K_gasPrice), DecString(g)>> : g \in GasArgValues }
    \cup { <<KeyEq(K_gasLimit, DecString(g))>> : g \in GasArgValues }
    \cup { <<Flag(K_chainId), DecString(c)>> : c \in ChainArgValues }

ArgvInputs ==
    { o \o t \o v \o n \o r :
        o \in OptionArgs, t \in ToArgs, v \in ValueArgs, n \in NonceArgs,
        r \in RpcArgs }

NoCall ==
    [nonce |-> 0, gasPrice |-> <<>>, gasLimit |-> <<>>, to |-> <<>>,
     value |-> <<>>, data |-> <<>>, chainId |-> 0, signature |-> <<>>,
     recid |-> 0]

NoResponse ==
    [network |-> "none", ok |-> FALSE, contentType |-> "none",
     body |-> "garbage", error |-> FALSE, resultField |-> "absent"]

(***************************************************************************)
(* The script wallet.ts, top to bottom                                     *)
(***************************************************************************)
Init ==
    /\ argv \in ArgvInputs
    /\ i = 0
    /\ result = EmptyResult
    /\ pc = "parse"
    /\ steps = <<>>
    /\ console = <<>>
    /\ exitCode = -1
    /\ call = NoCall
    /\ rawTx = <<>>
    /\ tx = <<>>
    /\ requests = 0
    /\ response = NoResponse
    /\ outcome = NoOutcome

\* an exception nobody catches: node prints it and exits with status 1
Uncaught ==
    /\ console' = Append(console, "uncaught exception")
    /\ exitCode' = 1
    /\ pc' = "exit"

\* process.exit(1) after console.error(msg)
Fail(msg) ==
    /\ console' = Append(console, msg)
    /\ exitCode' = 1
    /\ pc' = "exit"

\* one iteration of the loop of parseArgs
ParseArg ==
    /\ pc = "parse"
    /\ i < Len(argv)
    /\ LET r == parseArgsStep(argv, i, result)
       IN  IF r.threw
           THEN Uncaught /\ UNCHANGED <<i, result>>
           ELSE /\ i' = r.at
                /\ result' = r.obj
                /\ UNCHANGED <<pc, console, exitCode>>
    /\ UNCHANGED <<argv, steps, call, rawTx, tx, requests, response, outcome>>

\* return result
ParseReturn ==
    /\ pc = "parse"
    /\ i >= Len(argv)
    /\ pc' = "help"
    /\ UNCHANGED <<argv, i, result, steps, console, exitCode, call, rawTx, tx,
                   requests, response, outcome>>

\* if (argv.help || argv["--help"]) { console.log(HELP_MESSAGE); process.exit(0) }
Help ==
    /\ pc = "help"
    /\ IF Truthy(Get(result, K_help)) \/ Truthy(Get(result, K_dashHelp))
       THEN /\ console' = Append(console, "help")
            /\ exitCode' = 0
            /\ pc' = "exit"
       ELSE /\ pc' = "derive"
            /\ UNCHANGED <<console, exitCode>>
    /\ UNCHANGED <<argv, i, result, steps, call, rawTx, tx, requests, response,
                   outcome>>

\* Derive private key and address
DeriveKeys ==
    /\ pc = "derive"
    /\ LET mnemonic == IF Truthy(Get(result, K_mnemonic))
                       THEN Get(result, K_mnemonic) ELSE JStr(MNEMONIC)
           path     == IF Truthy(Get(result, K_path))
                       THEN Get(result, K_path) ELSE JStr(PATH)
       IN  CASE mnemonic.t # "string" ->
                  \* mnemonic.normalize is not a function
                  Uncaught /\ UNCHANGED steps
             [] mnemonic.t = "string" /\ ~ValidPath(path) ->
                  /\ steps' = steps \o <<"mnemonicToSeedSync">>
                  /\ Uncaught
             [] OTHER ->
                  /\ steps' = steps \o <<"mnemonicToSeedSync", "derivePath",
                                        "getPublicKey", "publicKeyToAddress">>
                  /\ console' = console \o <<"Wallet address", "Derivation path">>
                  /\ pc' = "required"
                  /\ UNCHANGED exitCode
    /\ UNCHANGED <<argv, i, result, call, rawTx, tx, requests, response, outcome>>

\* a validation step: print msg and exit with status 1 when bad, else go on
Validate(at, bad, msg, next) ==
    /\ pc = at
    /\ IF bad THEN Fail(msg)
       ELSE pc' = next /\ UNCHANGED <<console, exitCode>>
    /\ UNCHANGED <<argv, i, result, steps, call, rawTx, tx, requests, response,
                   outcome>>

CheckRequired ==
    Validate("required",
             \/ ~Truthy(Get(result, K_to))
             \/ ~Truthy(Get(result, K_value))
             \/ Get(result, K_nonce).t # "number",
             "Missing required flags.", "to")

CheckTo ==
    Validate("to", ~isHexAddress(Get(result, K_to)), "Invalid --to address", "value")

CheckValue ==
    Validate("value",
             \/ parseFloat(Get(result, K_value)).nan
             \/ parseFloat(Get(result, K_value)).v < 0,
             "Invalid --value", "nonce")

\* the numbers of the model are integers, so Number.isInteger holds
CheckNonce ==
    Validate("nonce", Get(result, K_nonce).n < 0, "Invalid --nonce", "rpc")

CheckRpc ==
    Validate("rpc",
             /\ Truthy(Get(result, K_rpc))
             /\ ~ValidUrl(ToStr(Get(result, K_rpc))),
             "Invalid --rpc URL", "build")

Gwei == 1000000000

HighGasGwei == 1000

\* the transaction parameters, their console.log and the warnings
BuildTx ==
    /\ pc = "build"
    /\ LET gasPrice == GasPriceOf(result)
           gasLimit == GasLimitOf(result)
           nonce    == Get(result, K_nonce).n
       IN  IF gasPrice.threw \/ gasLimit.threw
           THEN Uncaught /\ UNCHANGED call
           ELSE /\ call' = [NoCall EXCEPT
                              !.to = Get(result, K_to).s,
                              !.value = ValueWei(result),
                              !.nonce = nonce,
                              !.gasPrice = gasPrice.v,
                              !.gasLimit = gasLimit.v,
                              !.chainId = ChainIdOf(result)]
                /\ console' =
                     console \o <<"parameters">>
                     \o (IF nonce # 0 THEN <<"[Warning] Nonce is not 0.">> ELSE <<>>)
                     \o (IF BigLess(gasPrice.v, BigFromNat(Gwei))
                         THEN <<"[Warning] Gas price is very low">>
                         ELSE IF BigLess(BigMulSmall(BigFromNat(Gwei), HighGasGwei, 0),
                                         gasPrice.v)
                              THEN <<"[Warning] Gas price is very high">>
                              ELSE <<>>)
                /\ pc' = "sign"
                /\ UNCHANGED exitCode
    /\ UNCHANGED <<argv, i, result, steps, rawTx, tx, requests, response, outcome>>

\* const raw = signTransaction(...), the two console.log of the result, and
\* the end of the script when no --rpc was given
SignTx ==
    /\ pc = "sign"
    /\ \E signature \in Signatures, recid \in RecoveryIds :
         /\ call' = [call EXCEPT !.signature = signature, !.recid = recid]
         /\ rawTx' = encodeTx(call.nonce, call.gasPrice, call.gasLimit, call.to,
                              call.value, call.data, call.chainId)
         /\ tx' = SignedTuple(call.nonce, call.gasPrice, call.gasLimit, call.to,
                              call.value, call.data, call.chainId, signature, recid)
    /\ steps' = steps \o <<"keccak256", "ecdsaSign", "keccak256">>
    /\ console' = console \o <<"Raw TX hex to submit", "TX hash">>
    /\ IF Truthy(Get(result, K_rpc))
       THEN pc' = "broadcast" /\ UNCHANGED exitCode
       ELSE pc' = "exit" /\ exitCode' = 0
    /\ UNCHANGED <<argv, i, result, requests, response, outcome>>

\* broadcastRawTx, up to its await: the request leaves
Fetch ==
    /\ pc = "broadcast"
    /\ requests' = requests + 1
    /\ pc' = "await"
    /\ UNCHANGED <<argv, i, result, steps, console, exitCode, call, rawTx, tx,
                   response, outcome>>

\* fetch settles, broadcastRawTx returns or throws, the script prints the
\* result or the caught error, and the process ends
Settle ==
    /\ pc = "await"
    /\ \E resp \in Responses :
         /\ response' = resp
         /\ outcome' = broadcastRawTx(resp)
    /\ console' = Append(console, IF outcome'.kind = "returned"
                                  THEN "Broadcast success!" ELSE "Broadcast failed:")
    /\ exitCode' = 0
    /\ pc' = "exit"
    /\ UNCHANGED <<argv, i, result, steps, call, rawTx, tx, requests>>

Next ==
    \/ ParseArg
    \/ ParseReturn
    \/ Help
    \/ DeriveKeys
    \/ CheckRequired
    \/ CheckTo
    \/ CheckValue
    \/ CheckNonce
    \/ CheckRpc
    \/ BuildTx
    \/ SignTx
    \/ Fetch
    \/ Settle

Spec == Init /\ [][Next]_vars

(***************************************************************************)
(* encodeTx and signTransaction called directly, as the exported functions *)
(* they are, on arguments drawn from the sets below                        *)
(***************************************************************************)
MaxSmall == 16

LibNonces == (0..MaxSmall) \cup {255, 256, 4095, 4096}

LibGasPrices == {0, 256, 1000000000}

LibGasLimits == {0, 100000}

LibValues == {0, 4096}

LibChainIds == {0, 1, 110, 137}

LibTos == {AddrMixed, <<"0", "x", "1">>}

LibDatas == {<<>>, <<0>>}

LibCalls ==
    { [NoCall EXCEPT !.nonce = n, !.gasPrice = BigFromNat(gp),
                     !.gasLimit = BigFromNat(gl), !.to = t,
                     !.value = BigFromNat(v), !.data = d, !.chainId = c] :
        n \in LibNonces, gp \in LibGasPrices, gl \in LibGasLimits, t \in LibTos,
        v \in LibValues, d \in LibDatas, c \in LibChainIds }

LibInit ==
    /\ argv = <<>>
    /\ i = 0
    /\ result = EmptyResult
    /\ pc = "lib"
    /\ steps = <<>>
    /\ console = <<>>
    /\ exitCode = -1
    /\ call \in LibCalls
    /\ rawTx = <<>>
    /\ tx = <<>>
    /\ requests = 0
    /\ response = NoResponse
    /\ outcome = NoOutcome

\* encodeTx(nonce, gasPrice, gasLimit, to, value, data, chainId)
CallEncodeTx ==
    /\ pc = "lib"
    /\ rawTx' = encodeTx(call.nonce, call.gasPrice, call.gasLimit, call.to,
                         call.value, call.data, call.chainId)
    /\ pc' = "encoded"
    /\ UNCHANGED <<argv, i, result, steps, console, exitCode, call, tx, requests,
                   response, outcome>>

\* signTransaction(nonce, gasPrice, gasLimit, to, value, data, chainId, privateKey)
CallSignTransaction ==
    /\ pc = "lib"
    /\ \E signature \in Signatures, recid \in RecoveryIds :
         /\ call' = [call EXCEPT !.signature = signature, !.recid = recid]
         /\ rawTx' = encodeTx(call.nonce, call.gasPrice, call.gasLimit, call.to,
                              call.value, call.data, call.chainId)
         /\ tx' = SignedTuple(call.nonce, call.gasPrice, call.gasLimit, call.to,
                              call.value, call.data, call.chainId, signature, recid)
    /\ steps' = steps \o <<"keccak256", "ecdsaSign">>
    /\ pc' = "signed"
    /\ UNCHANGED <<argv, i, result, console, exitCode, requests, response, outcome>>

LibNext ==
    \/ CallEncodeTx
    \/ CallSignTransaction

LibSpec == LibInit /\ [][LibNext]_vars

(***************************************************************************)
(* Reading byte strings back                                               *)
(***************************************************************************)
RECURSIVE StripZeros(_)
StripZeros(d) == IF d # <<>> /\ d[1] = 0 THEN StripZeros(Slice(d, 1)) ELSE d

\* the base-16 digits of a byte string
Nibbles(bytes) ==
    [k \in 1..(2 * Len(bytes)) |->
        IF k % 2 = 1 THEN bytes[(k + 1) \div 2] \div 16 ELSE bytes[k \div 2] % 16]

\* bytes read as a big-endian unsigned integer, as a BigInt
BytesToBig(bytes) == StripZeros(Nibbles(bytes))

RECURSIVE BytesToNat(_)
BytesToNat(bytes) ==
    IF bytes = <<>> THEN 0
    ELSE BytesToNat(SubSeq(bytes, 1, Len(bytes) - 1)) * 256 + bytes[Len(bytes)]

NoLeadingZero(bytes) == bytes = <<>> \/ bytes[1] # 0

\* bytes is the minimal big-endian representation of the BigInt n
IsMinimal(bytes, n) == NoLeadingZero(bytes) /\ BytesToBig(bytes) = n

Last(seq) == seq[Len(seq)]

(***************************************************************************)
(* Claims about encodeTx and signTransaction, under LibSpec                *)
(***************************************************************************)

\* C1: for every non-negative integer passed as nonce, gasPrice, gasLimit or
\* value to encodeTx or signTransaction, the bytes placed in that field are
\* the minimal big-endian representation of the integer: no leading zero
\* byte, and read back as a big-endian unsigned integer they equal it.
C1_MinimalBigEndian ==
    /\ pc \in {"encoded", "signed"} =>
         /\ IsMinimal(rawTx[1], BigFromNat(call.nonce))
         /\ IsMinimal(rawTx[2], call.gasPrice)
         /\ IsMinimal(rawTx[3], call.gasLimit)
         /\ IsMinimal(rawTx[5], call.value)
    /\ pc = "signed" =>
         /\ IsMinimal(tx[1], BigFromNat(call.nonce))
         /\ IsMinimal(tx[2], call.gasPrice)
         /\ IsMinimal(tx[3], call.gasLimit)
         /\ IsMinimal(tx[5], call.value)

\* C2: zero-normalization: in the tuple built by encodeTx and in the tuple
\* built by signTransaction, every integer field (nonce, gasPrice, gasLimit,
\* value, chainId) whose value is zero is the empty byte string.
C2_ZeroNormalization ==
    /\ pc \in {"encoded", "signed"} =>
         /\ call.nonce = 0 => rawTx[1] = <<>>
         /\ call.gasPrice = <<>> => rawTx[2] = <<>>
         /\ call.gasLimit = <<>> => rawTx[3] = <<>>
         /\ call.value = <<>> => rawTx[5] = <<>>
         /\ call.chainId = 0 => rawTx[7] = <<>>
    /\ pc = "signed" =>
         /\ call.nonce = 0 => tx[1] = <<>>
         /\ call.gasPrice = <<>> => tx[2] = <<>>
         /\ call.gasLimit = <<>> => tx[3] = <<>>
         /\ call.value = <<>> => tx[5] = <<>>

\* C3: replay protection: the v field of the signed tuple, decoded as a
\* big-endian unsigned integer, equals chainId*2 + 35 + recoveryId, so that
\* (v - 35) div 2 recovers the chainId used at signing time.
C3_ReplayProtection ==
    pc = "signed" =>
        LET v == BytesToNat(tx[7])
        IN  /\ v = call.chainId * 2 + 35 + call.recid
            /\ (v - 35) \div 2 = call.chainId

\* C8: the unsigned tuple hashed for signing and the signed tuple returned
\* by signTransaction both have 9 fields and agree on their first six; the
\* unsigned one ends with the chainId field and two empty strings, the
\* signed one with the v field and r and s, the two 32-byte halves of the
\* signature.  (Fields 7 are compared with the conversion the code applies
\* to an integer field; whether that conversion is minimal is C1 and C3.)
C8_TupleShapes ==
    pc = "signed" =>
        /\ Len(rawTx) = 9
        /\ Len(tx) = 9
        /\ \A k \in 1..6 : rawTx[k] = tx[k]
        /\ rawTx[7] = hexToUint8Array(ToString16(call.chainId))
        /\ rawTx[8] = <<>>
        /\ rawTx[9] = <<>>
        /\ tx[7] = hexToUint8Array(ToString16(call.chainId * 2 + 35 + call.recid))
        /\ Len(tx[8]) = 32
        /\ Len(tx[9]) = 32
        /\ tx[8] \o tx[9] = call.signature

C8_Witness ==
    /\ pc = "signed"
    /\ call.value = <<>>
    /\ call.nonce = 256
    /\ call.chainId = 137
    /\ Len(tx) = 9

(***************************************************************************)
(* Claims about the script, under Spec                                     *)
(***************************************************************************)
ValidationErrors ==
    {"Missing required flags.", "Invalid --to address", "Invalid --value",
     "Invalid --nonce", "Invalid --rpc URL"}

Failures == ValidationErrors \cup {"uncaught exception", "Broadcast failed:"}

\* C4: a validation error is surfaced before any cryptographic work: in a
\* run that ends with a validation error, no seed derivation, key
\* derivation, address computation, hashing or signing step was executed.
C4_ValidationBeforeCrypto ==
    (pc = "exit" /\ console # <<>> /\ Last(console) \in ValidationErrors)
        => steps = <<>>

Signed == tx # <<>>

ToIsAddress ==
    Get(result, K_to).t = "string" /\ AddressPattern(Get(result, K_to).s)

HelpShown == \E k \in 1..Len(console) : console[k] = "help"

C6_FailuresExitNonZero ==
    (pc = "exit" /\ \E k \in 1..Len(console) : console[k] \in Failures)
        => exitCode > 0

GoodResponse(resp) ==
    /\ resp.network = "ok"
    /\ resp.ok
    /\ resp.contentType = "json"
    /\ resp.body = "json"
    /\ ~resp.error
    /\ resp.resultField = "hash"

\* C7: a broadcast is never retried: at most one request is sent, whatever
\* the outcome; broadcastRawTx returns the provider's result only when the
\* response is HTTP-ok, has a JSON content type, carries no error and has a
\* non-empty result, and in every other outcome it throws an error whose
\* message starts with 'Broadcast failed: ', sending nothing more.
C7_NoRetry ==
    /\ requests <= 1
    /\ outcome.kind # "none" => requests = 1 /\ pc = "exit"
    /\ outcome.kind = "returned" => GoodResponse(response) /\ outcome.value = "hash"
    /\ (response.network # "none" /\ ~GoodResponse(response)) =>
          /\ outcome.kind = "thrown"
          /\ outcome.prefix = "Broadcast failed: "
    /\ (pc = "exit" /\ requests = 1) => outcome.kind \in {"returned", "thrown"}

C7_Witness ==
    /\ pc = "exit"
    /\ requests = 1
    /\ outcome.kind = "thrown"
    /\ response.network = "ok"
    /\ response.ok
    /\ response.contentType = "json"
    /\ response.body = "json"
    /\ response.resultField = "empty"

\* the text before and after the first '=' of a string holding one
FirstEq(s) == CHOOSE k \in 1..Len(s) : s[k] = "=" /\ \A j \in 1..(k - 1) : s[j] # "="

BeforeFirstEq(s) == SubSeq(s, 1, FirstEq(s) - 1)

AfterFirstEq(s) == Slice(s, FirstEq(s))

\* C9: parseArgs supports --key=value: a token --K=V, K without '=', V any
\* text (also one holding '='), maps K to parseValue(V) with V the whole
\* text after the first '=', consumes exactly one argv position, and the
\* next token is parsed on its own.
C9_KeyEqualsValue ==
    [][ (/\ pc = "parse"
         /\ i < Len(argv)
         /\ StartsWith(argv[i + 1], Dashes)
         /\ Includes(Slice(argv[i + 1], 2), "="))
        => (/\ i' = i + 1
            /\ result' = Put(result, BeforeFirstEq(Slice(argv[i + 1], 2)),
                             parseValue(AfterFirstEq(Slice(argv[i + 1], 2))))) ]_vars

Supplied(k) == Get(result, k).t = "number" /\ Get(result, k).n >= 0

Absent(k) == Get(result, k).t = "undefined"

\* C10: when --gasPrice, --gasLimit or --chainId is supplied with a
\* non-negative integer (0 included), the signed transaction uses exactly
\* that value; the default (1000000000, 21000, 1) is used only when the
\* flag is absent.
C10_SuppliedGasUsed ==
    Signed =>
        /\ Supplied(K_gasPrice) => call.gasPrice = BigFromNat(Get(result, K_gasPrice).n)
        /\ Supplied(K_gasLimit) => call.gasLimit = BigFromNat(Get(result, K_gasLimit).n)
        /\ Supplied(K_chainId) => call.chainId = Get(result, K_chainId).n
        /\ Absent(K_gasPrice) => call.gasPrice = BigFromNat(DefaultGasPrice)
        /\ Absent(K_gasLimit) => call.gasLimit = BigFromNat(DefaultGasLimit)
        /\ Absent(K_chainId) => call.chainId = DefaultChainId

====
